---------------------------- MODULE Spec2Model ----------------------------
(***************************************************************************)
(* The Reddit analysis tools of app/tools.py (fetch_webpage,               *)
(* search_reddit, analyze_reddit_post, analyze_reddit_trends) as a state   *)
(* machine: one invocation at a time, each tool advancing through the      *)
(* steps of its body.  Spec is the tools in service, whatever the          *)
(* credential names of their module are bound to; StartSpec is the program *)
(* from the first statement of run.py on, the bindings being what the      *)
(* imports and init_environment() leave.                                   *)
(*                                                                         *)
(* Text is a sequence of one-character strings, so that lower-casing,      *)
(* slicing, len() and Python's substring test `a in b` are computed and    *)
(* not assumed.  Polarities are integers in tenths (0.1 is 1); an average  *)
(* is the exact fraction [num, den] of a sum of tenths over a count, so    *)
(* the thresholds 0.1 and -0.1 are num > den and num < -den.               *)
(*                                                                         *)
(* The libraries behind the tools (praw, requests, TextBlob, NLTK) are     *)
(* outside the repository: the Reddit client and the HTTP fetch are the    *)
(* environment (what they return, or that they raise, is chosen by \E),    *)
(* and the sentiment scorer, the tokenizer, the stop-word list and the     *)
(* lemmatizer are tables over the small corpus the model draws texts from. *)
(***************************************************************************)
EXTENDS Integers, Sequences, FiniteSets, TLC

(***************************************************************************)
(* Bounds of the model.                                                    *)
(***************************************************************************)
\* comments returned by post.comments.list()[:comment_limit]
MaxComments == 3
\* subreddit names in one analyze_reddit_trends request
MaxSubs == 2
\* posts one subreddit listing yields (the limit argument)
MaxPosts == 2

(***************************************************************************)
(* Program constants.                                                      *)
(***************************************************************************)
\* comment_text[:300] and len(comment_text) > 300
PreviewLen == 300
\* keywords.most_common(20), all_keywords.most_common(20)
TopKeywords == 20
\* top_keywords[:10], trending_keywords[:10], most_common(10)
TopicKeywords == 10
\* len(comment_indices) > 1, len(post_ids) > 1
MinGroup == 1
\* comment_indices[:3], relevant_posts[:3]
SampleSize == 3
\* sorted(all_posts, ...)[:10]
TrendingPosts == 10
\* comments[:20] of the returned result
ReturnedComments == 20
\* len(word) > 2
MinWordLen == 2
\* stats["total_score"] / 100
ScoreDivisor == 100

(***************************************************************************)
(* Strings.                                                                *)
(***************************************************************************)
UpperCase == <<"A","B","C","D","E","F","G","H","I","J","K","L","M","N","O","P","Q","R","S","T","U","V","W","X","Y","Z">>
LowerCase == <<"a","b","c","d","e","f","g","h","i","j","k","l","m","n","o","p","q","r","s","t","u","v","w","x","y","z">>

\* str.lower() of one character
LowerChar(c) ==
    IF \E i \in 1..Len(UpperCase) : UpperCase[i] = c
    THEN LowerCase[CHOOSE i \in 1..Len(UpperCase) : UpperCase[i] = c]
    ELSE c

\* str.lower()
Lower(s) == [i \in 1..Len(s) |-> LowerChar(s[i])]

\* Python's `a in b` on two strings: a occurs in b as a contiguous substring
\* (the empty string occurs in every string).
IsSubstring(a, b) ==
    \/ Len(a) = 0
    \/ \E i \in 1..(Len(b) - Len(a) + 1) : SubSeq(b, i, i + Len(a) - 1) = a

\* s[:n]
Prefix(s, n) == SubSeq(s, 1, IF Len(s) < n THEN Len(s) ELSE n)

Ellipsis == <<".",".",".">>

\* string.punctuation, the 32 characters in their order (the grave accent,
\* which a TLA+ string cannot hold, is written "grave")
string_punctuation == <<"!","\"","#","$","%","&","'","(",")","*","+",",","-",".","/",":",";","<","=",">","?","@","[","\\","]","^","_","grave","{","|","}","~">>

\* s repeated n times
Repeat(s, n) == [i \in 1..(n * Len(s)) |-> s[((i - 1) % Len(s)) + 1]]

\* The pieces of s[lo..hi] between spaces, in order, empty pieces dropped
\* (str.split()): the pieces of the two halves, the last of the left and the
\* first of the right being one piece when no space separates them.
RECURSIVE Pieces(_, _, _)
Pieces(s, lo, hi) ==
    IF lo > hi THEN <<>>
    ELSE IF lo = hi THEN (IF s[lo] = " " THEN <<>> ELSE << <<s[lo]>> >>)
    ELSE LET mid == (lo + hi) \div 2
             left == Pieces(s, lo, mid)
             right == Pieces(s, mid + 1, hi)
         IN  IF s[mid] # " " /\ s[mid + 1] # " "
             THEN SubSeq(left, 1, Len(left) - 1)
                  \o << left[Len(left)] \o Head(right) >>
                  \o Tail(right)
             ELSE left \o right

\* nltk.tokenize.word_tokenize on the corpus below, whose texts separate every
\* token (words and the ellipsis alike) by one space: the tokens are the pieces.
word_tokenize(s) == Pieces(s, 1, Len(s))

\* stopwords.words('english'), the members the corpus can meet
stop_words ==
    { <<"i">>, <<"t","h","e">>, <<"t","h","i","s">>, <<"o","f">>,
      <<"c","a","n">>, <<"w","i","l","l">>, <<"a","n","d">> }

\* WordNetLemmatizer().lemmatize(word) with the default part of speech (noun):
\* a plural whose singular is a WordNet noun is reduced to it
\* (cats -> cat, cans -> can, ads -> ad, games -> game), any other word is kept.
lemmatize(word) ==
    CASE word = <<"c","a","t","s">> -> <<"c","a","t">>
      [] word = <<"c","a","n","s">> -> <<"c","a","n">>
      [] word = <<"a","d","s">> -> <<"a","d">>
      [] word = <<"g","a","m","e","s">> -> <<"g","a","m","e">>
      [] OTHER -> word

\* The condition of the list comprehension: word not in stop_words and
\* word not in string.punctuation and len(word) > 2, on the raw token.
KeepToken(word) ==
    /\ word \notin stop_words
    /\ ~IsSubstring(word, string_punctuation)
    /\ Len(word) > MinWordLen

\* filtered_tokens = [lemmatizer.lemmatize(word) for word in tokens if ...]:
\* the filter reads the raw token, the lemma of a kept token is what is listed
FilterTokens(tokens) ==
    LET kept == SelectSeq(tokens, KeepToken)
    IN  [k \in 1..Len(kept) |-> lemmatize(kept[k])]

\* word_tokenize(text.lower()) followed by the filter and the lemmatizer
filtered_tokens(text) == FilterTokens(word_tokenize(Lower(text)))

(***************************************************************************)
(* collections.Counter: a sequence of [word, count] in the order the words *)
(* were first inserted (a Counter is a dict, which keeps insertion order). *)
(***************************************************************************)
CounterHas(c, w) == \E i \in 1..Len(c) : c[i].word = w

CounterAdd(c, w, n) ==
    IF CounterHas(c, w)
    THEN [i \in 1..Len(c) |->
            IF c[i].word = w THEN [word |-> w, count |-> c[i].count + n] ELSE c[i]]
    ELSE Append(c, [word |-> w, count |-> n])

\* Counter.update(iterable of words)
RECURSIVE CounterUpdate(_, _)
CounterUpdate(c, tokens) ==
    IF tokens = <<>> THEN c
    ELSE CounterUpdate(CounterAdd(c, Head(tokens), 1), Tail(tokens))

\* Counter.update(other Counter)
RECURSIVE CounterMerge(_, _)
CounterMerge(c, other) ==
    IF other = <<>> THEN c
    ELSE CounterMerge(CounterAdd(c, Head(other).word, Head(other).count), Tail(other))

\* Stable insertion of the pair e = [key, val] into a sequence of pairs sorted
\* by non-increasing key: e goes after every pair whose key is greater than or
\* equal to its own.
RECURSIVE InsertDesc(_, _)
InsertDesc(sorted, e) ==
    IF sorted = <<>> THEN <<e>>
    ELSE IF Head(sorted).key >= e.key
         THEN <<Head(sorted)>> \o InsertDesc(Tail(sorted), e)
         ELSE <<e>> \o sorted

RECURSIVE SortPairsDesc(_)
SortPairsDesc(pairs) ==
    IF pairs = <<>> THEN <<>>
    ELSE InsertDesc(SortPairsDesc(SubSeq(pairs, 1, Len(pairs) - 1)), pairs[Len(pairs)])

\* sorted(s, key=..., reverse=True) and list.sort(key=..., reverse=True), with
\* keys[i] the key of s[i]: stable, elements of equal key keep their order.
SortDesc(s, keys) ==
    LET sorted == SortPairsDesc([i \in 1..Len(s) |-> [key |-> keys[i], val |-> s[i]]])
    IN  [i \in 1..Len(s) |-> sorted[i].val]

\* most_common with the words of equal count in the reverse of the order in
\* which they were first inserted
most_common_latest_first(c, n) ==
    LET r == [i \in 1..Len(c) |-> c[Len(c) + 1 - i]]
    IN  Prefix(SortDesc(r, [i \in 1..Len(r) |-> r[i].count]), n)

\* Counter.most_common(n): sorted by count, descending, stable; the first n
most_common(c, n) == Prefix(SortDesc(c, [i \in 1..Len(c) |-> c[i].count]), n)


(***************************************************************************)
(* Numbers.                                                                *)
(***************************************************************************)
RECURSIVE Sum(_)
Sum(s) == IF s = <<>> THEN 0 ELSE Head(s) + Sum(Tail(s))

\* sum(xs) / len(xs) if xs else 0, as the fraction num/den of tenths
Average(xs) ==
    IF xs = <<>> THEN [num |-> 0, den |-> 1]
    ELSE [num |-> Sum(xs), den |-> Len(xs)]

\* SentimentLabel with the thresholds themselves counted in
SentimentLabelInclusive(num, den) ==
    IF num >= den THEN "positive"
    ELSE IF num <= -den THEN "negative"
    ELSE "neutral"

\* "positive" if p > 0.1 else "negative" if p < -0.1 else "neutral",
\* for p = num/den tenths with den > 0
SentimentLabel(num, den) ==
    IF num > den THEN "positive"
    ELSE IF num < -den THEN "negative"
    ELSE "neutral"

\* All sequences over S of length at most n
SeqsUpTo(S, n) == UNION { [1..k -> S] : k \in 0..n }

\* [f(x) for x in s if P(x)] for a set of kept positions
RECURSIVE SelectIdx(_, _)
SelectIdx(s, keep) ==
    IF s = <<>> THEN <<>>
    ELSE SelectIdx(SubSeq(s, 1, Len(s) - 1), keep)
         \o (IF Len(s) \in keep THEN <<s[Len(s)]>> ELSE <<>>)

(***************************************************************************)
(* The environment: what Reddit holds.                                     *)
(***************************************************************************)
None == "None"

\* The comments a post can have: body, author (None when the account was
\* deleted), and the polarity in tenths TextBlob(body).sentiment reports.
LongBody ==
    Repeat(<<"a","b"," ">>, PreviewLen \div 3) \o <<"h","a","t","e">>

\* Two longer texts, of twelve and eleven distinct keywords, every one a
\* singular noun that the lemmatizer keeps as it is; "thread" occurs twice.
ReleaseText ==
    << "p","y","t","h","o","n"," ","r","e","l","e","a","s","e"," ","p","a",
       "r","s","e","r"," ","s","y","n","t","a","x"," ","t","y","p","i","n",
       "g"," ","w","h","e","e","l"," ","a","s","y","n","c"," ","e","r","r",
       "o","r"," ","s","p","e","e","d"," ","m","e","m","o","r","y"," ","t",
       "h","r","e","a","d"," ","m","o","d","u","l","e"," ","t","h","r","e",
       "a","d" >>

MarketText ==
    << "m","a","r","k","e","t"," ","b","u","d","g","e","t"," ","c","o","u",
       "n","c","i","l"," ","m","a","y","o","r"," ","s","t","o","r","m"," ",
       "f","l","o","o","d"," ","h","a","r","b","o","r"," ","b","r","i","d",
       "g","e"," ","t","r","a","i","n"," ","s","t","r","i","k","e"," ","v",
       "o","t","e" >>

CommentFixtures ==
    { [body |-> <<"G","r","e","a","t"," ","c","a","t","s">>,
       author |-> "ann", polarity |-> 8],
      [body |-> <<"g","r","e","a","t"," ","c","a","n","s"," ",".",".",".">>,
       author |-> "bob", polarity |-> 1],
      [body |-> <<"I"," ","h","a","t","e"," ","a","d","s">>,
       author |-> "cy", polarity |-> -8],
      [body |-> LongBody, author |-> "dee", polarity |-> -1],
      [body |-> <<"t","h","e"," ","c","a","t","s">>,
       author |-> None, polarity |-> 0],
      [body |-> ReleaseText, author |-> "eve", polarity |-> 2],
      [body |-> MarketText, author |-> "fay", polarity |-> -2] }

\* The posts Reddit holds: the polarity is what TextBlob reports, in tenths,
\* for the title followed by the selftext.
PostFixtures ==
    { [id |-> "p1", title |-> <<"P","a","s","s","w","o","r","d"," ","l","e","a","k">>,
       selftext |-> <<>>, score |-> 300, num_comments |-> 10, polarity |-> -3,
       subreddit |-> "python"],
      [id |-> "p2", title |-> <<"N","e","w"," ","c","a","t","s">>,
       selftext |-> ReleaseText,
       score |-> 100, num_comments |-> 5, polarity |-> 1, subreddit |-> "python"],
      [id |-> "p3", title |-> <<"W","o","r","d"," ","g","a","m","e","s">>,
       selftext |-> <<>>, score |-> 200, num_comments |-> 7, polarity |-> 8,
       subreddit |-> "news"],
      [id |-> "p4", title |-> <<"C","a","t","s"," ","w","i","n">>,
       selftext |-> MarketText, score |-> 50, num_comments |-> 1, polarity |-> 0,
       subreddit |-> "news"] }

\* The subreddits a request can name; r/all lists the posts of all of them.
SubredditNames == {"python", "news"}

PostsOf(name) ==
    IF name = "all" THEN PostFixtures
    ELSE { p \in PostFixtures : p.subreddit = name }

(***************************************************************************)
(* State.                                                                  *)
(***************************************************************************)
VARIABLES
    REDDIT_CLIENT_ID,      \* the names app/tools.py bound with its
    REDDIT_CLIENT_SECRET,  \*   from .config import ...
    config_REDDIT_CLIENT_ID,      \* the globals of app/config.py
    config_REDDIT_CLIENT_SECRET,
    environ,               \* what os.getenv finds once load_dotenv() has run
    pc,                    \* where the running invocation stands
    tool,                  \* the tool that is running, None when idle
    reddit,                \* praw.Reddit(...) was constructed in this invocation
    reddit_calls,          \* the client was asked for something in this invocation
    result,                \* what the invocation returned (or raised)
    args,                  \* the enum arguments of the running invocation
    \* analyze_reddit_post
    fetched,               \* post.comments.list()[:comment_limit], still to visit
    analysed,              \* the fetched comments the loop analysed, in order
    comments,              \* comments
    comment_sentiments,    \* comment_sentiments
    keywords,              \* keywords
    topics,                \* topics
    \* analyze_reddit_trends
    subreddits,            \* subreddits, after the default was filled in
    remaining,             \* the names the outer loop has still to visit
    yielded,               \* what the listing being read has yielded so far
    all_posts,             \* all_posts
    subreddit_stats,       \* subreddit_stats, a dict kept in insertion order
    failed                 \* positions in subreddits of the fetches that raised

postVars == <<fetched, analysed, comments, comment_sentiments, keywords, topics>>
credVars == <<REDDIT_CLIENT_ID, REDDIT_CLIENT_SECRET, config_REDDIT_CLIENT_ID,
              config_REDDIT_CLIENT_SECRET, environ>>
trendVars == <<subreddits, remaining, yielded, all_posts, subreddit_stats, failed>>
vars == <<REDDIT_CLIENT_ID, REDDIT_CLIENT_SECRET, config_REDDIT_CLIENT_ID,
          config_REDDIT_CLIENT_SECRET, environ, pc, tool, reddit, reddit_calls,
          result, args, fetched, analysed, comments, comment_sentiments, keywords,
          topics, subreddits, remaining, yielded, all_posts, subreddit_stats, failed>>

NoResult == [status |-> "pending"]
NoArgs == [none |-> TRUE]

\* The values a credential name can be bound to: None (config.py:15-16, before
\* init_environment), "" (os.getenv's default, config.py:27-28), or a value.
\* Init takes the pairs that cover each operand of the test of the tools.
Credentials ==
    { <<None, None>>, <<"", "secret">>, <<"id", "">>, <<"id", "secret">> }

PostLocalsInit ==
    /\ fetched = <<>>
    /\ analysed = <<>>
    /\ comments = <<>>
    /\ comment_sentiments = <<>>
    /\ keywords = <<>>
    /\ topics = <<>>

TrendLocalsInit ==
    /\ subreddits = <<>>
    /\ remaining = <<>>
    /\ yielded = <<>>
    /\ all_posts = <<>>
    /\ subreddit_stats = <<>>
    /\ failed = {}

\* No invocation is running and none has run
NoInvocation ==
    /\ tool = None
    /\ reddit = FALSE
    /\ reddit_calls = FALSE
    /\ result = NoResult
    /\ args = NoArgs
    /\ PostLocalsInit
    /\ TrendLocalsInit

\* The tools in service, the names of their module bound to a pair of
\* Credentials that the environment and app/config.py hold as well.
Init ==
    /\ \E c \in Credentials :
          /\ REDDIT_CLIENT_ID = c[1]
          /\ REDDIT_CLIENT_SECRET = c[2]
          /\ config_REDDIT_CLIENT_ID = c[1]
          /\ config_REDDIT_CLIENT_SECRET = c[2]
          /\ environ = [REDDIT_CLIENT_ID |-> c[1], REDDIT_CLIENT_SECRET |-> c[2]]
    /\ pc = "idle"
    /\ NoInvocation

\* Python's truth value of a string or None
Truthy(v) == v # None /\ v # ""

\* if not REDDIT_CLIENT_ID or not REDDIT_CLIENT_SECRET
MissingCredentials == ~Truthy(REDDIT_CLIENT_ID) \/ ~Truthy(REDDIT_CLIENT_SECRET)

ErrorResult(message) == [status |-> "error", message |-> message]

\* ToolExcept with the except clause letting the exception through
ToolExceptReraise(t) == [exception |-> t]

\* The except clauses that close each tool's try: the exception becomes a
\* dictionary with status "error" and a message that embeds str(e).
ToolExcept(t) ==
    CASE t = "fetch_webpage" -> ErrorResult("webpage_error")
      [] t = "search_reddit" -> ErrorResult("search_error")
      [] t = "analyze_reddit_post" -> ErrorResult("post_analysis_error")
      [] t = "analyze_reddit_trends" -> ErrorResult("trend_analysis_error")

\* A step of tool t raises: control leaves the try for its except clause.
Raise(t) ==
    /\ pc' = "returned"
    /\ result' = ToolExcept(t)


(***************************************************************************)
(* fetch_webpage                                                           *)
(***************************************************************************)
\* The whole tool: requests.get raises (a RequestException), or the parsing of
\* the page raises, or the page is returned as text or as HTML.
FetchWebpage ==
    /\ pc = "idle"
    /\ tool' = "fetch_webpage"
    /\ args' = NoArgs
    /\ \E outcome \in {"request_exception", "exception", "text", "html"} :
          IF outcome \in {"request_exception", "exception"}
          THEN Raise("fetch_webpage")
          ELSE /\ pc' = "returned"
               /\ result' = [status |-> "success", content |-> outcome]
    /\ UNCHANGED <<credVars, reddit, reddit_calls, postVars, trendVars>>

(***************************************************************************)
(* search_reddit                                                           *)
(***************************************************************************)
SearchTypes == {"post", "subreddit"}
TimeFilters == {"hour", "day", "week", "month", "year", "all"}

\* SearchChecks with the time filter checked for a post search only, the one
\* search that passes it on
SearchChecksPostOnly(search_type, time_filter) ==
    IF MissingCredentials THEN "missing_credentials"
    ELSE IF search_type \notin {"post", "subreddit"} THEN "invalid_search_type"
    ELSE IF search_type = "post"
            /\ time_filter \notin {"hour", "day", "week", "month", "year", "all"}
         THEN "invalid_time_filter"
    ELSE "ok"

\* The checks that precede praw.Reddit(...): the message of the error they
\* return, or "ok".
SearchChecks(search_type, time_filter) ==
    IF MissingCredentials THEN "missing_credentials"
    ELSE IF search_type \notin SearchTypes THEN "invalid_search_type"
    ELSE IF time_filter \notin TimeFilters THEN "invalid_time_filter"
    ELSE "ok"

SearchCall ==
    /\ pc = "idle"
    /\ tool' = "search_reddit"
    /\ \E search_type \in {"post", "subreddit", "user"},
          time_filter \in {"month", "decade"} :
          /\ args' = [search_type |-> search_type, time_filter |-> time_filter]
          /\ LET check == SearchChecks(search_type, time_filter) IN
             IF check # "ok"
             THEN /\ pc' = "returned"
                  /\ result' = ErrorResult(check)
                  /\ UNCHANGED reddit
             ELSE \/ /\ reddit' = TRUE
                     /\ pc' = "search_fetch"
                     /\ UNCHANGED result
                  \/ /\ Raise("search_reddit")
                     /\ UNCHANGED reddit
    /\ UNCHANGED <<credVars, reddit_calls, postVars, trendVars>>

\* reddit.subreddits.search / subreddit.search and the loop over what it
\* yields: the listing raises, or n results are collected.
SearchFetch ==
    /\ pc = "search_fetch"
    /\ reddit_calls' = TRUE
    /\ \/ Raise("search_reddit")
       \/ \E n \in 0..MaxPosts :
             /\ pc' = "returned"
             /\ result' = [status |-> "success",
                           search_type |-> args.search_type,
                           time_filter |-> args.time_filter,
                           result_count |-> n]
    /\ UNCHANGED <<credVars, tool, reddit, args, postVars, trendVars>>

(***************************************************************************)
(* analyze_reddit_post                                                     *)
(***************************************************************************)
CommentSorts == {"top", "best", "new", "controversial", "old", "qa"}

PostChecks(comment_sort) ==
    IF MissingCredentials THEN "missing_credentials"
    ELSE IF comment_sort \notin CommentSorts THEN "invalid_comment_sort"
    ELSE "ok"

\* comment_text[:300] + "..." if len(comment_text) > 300 else comment_text
Preview(text) ==
    IF Len(text) > PreviewLen THEN Prefix(text, PreviewLen) \o Ellipsis ELSE text

\* Up to the loop: the checks, the client, the post id from the URL, the post
\* and its comment list.  url_ok: re.search found /comments/<id>/ in post_url.
PostCall ==
    /\ pc = "idle"
    /\ tool' = "analyze_reddit_post"
    /\ \E comment_sort \in {"top", "hot"}, url_ok \in BOOLEAN :
          /\ args' = [comment_sort |-> comment_sort]
          /\ LET check == PostChecks(comment_sort) IN
             IF check # "ok"
             THEN /\ pc' = "returned"
                  /\ result' = ErrorResult(check)
                  /\ UNCHANGED <<reddit, reddit_calls, postVars>>
             ELSE IF ~url_ok
             THEN /\ reddit' = TRUE
                  /\ pc' = "returned"
                  /\ result' = ErrorResult("invalid_post_url")
                  /\ UNCHANGED <<reddit_calls, postVars>>
             ELSE \/ /\ reddit' = TRUE
                     /\ reddit_calls' = TRUE
                     /\ Raise("analyze_reddit_post")
                     /\ UNCHANGED postVars
                  \/ /\ reddit' = TRUE
                     /\ reddit_calls' = TRUE
                     /\ \E list \in SeqsUpTo(CommentFixtures, MaxComments) :
                           fetched' = list
                     /\ pc' = "post_loop"
                     /\ UNCHANGED <<result, analysed, comments,
                                    comment_sentiments, keywords, topics>>
    /\ UNCHANGED <<credVars, trendVars>>

\* One iteration of the loop over the fetched comments.
PostComment ==
    /\ pc = "post_loop"
    /\ fetched # <<>>
    /\ LET comment == Head(fetched)
           label == SentimentLabel(comment.polarity, 1)
           comment_data ==
               [id |-> Len(analysed) + 1,
                author |-> comment.author,
                text |-> Preview(comment.body),
                sentiment |-> [polarity |-> comment.polarity, label |-> label]]
       IN
       IF comment.author = None
       THEN \* if not comment.author: continue
            /\ fetched' = Tail(fetched)
            /\ UNCHANGED <<pc, result, analysed, comments, comment_sentiments,
                           keywords, topics>>
       ELSE \/ \* TextBlob, datetime or the tokenizer raises
               /\ Raise("analyze_reddit_post")
               /\ UNCHANGED postVars
            \/ /\ fetched' = Tail(fetched)
               /\ analysed' = Append(analysed, comment)
               /\ comments' = Append(comments, comment_data)
               /\ comment_sentiments' = Append(comment_sentiments, comment.polarity)
               /\ keywords' = CounterUpdate(keywords, filtered_tokens(comment.body))
               /\ UNCHANGED <<pc, result, topics>>
    /\ UNCHANGED <<credVars, tool, reddit, reddit_calls, args, trendVars>>

\* No keyword was found: assigned_topic stays None
NoTopic == <<>>

\* The inner loop: the first of the keywords kws, in their order, whose word
\* occurs in text; NoTopic when none does.
AssignedTopic(text, kws) ==
    LET hits == { k \in 1..Len(kws) : IsSubstring(kws[k].word, text) } IN
    IF hits = {} THEN NoTopic
    ELSE kws[CHOOSE k \in hits : \A j \in hits : k <= j].word

\* topics[topic].append(i) on a defaultdict(list), kept in insertion order
TopicsAppend(tps, topic, i) ==
    IF \E t \in 1..Len(tps) : tps[t].topic = topic
    THEN [t \in 1..Len(tps) |->
            IF tps[t].topic = topic
            THEN [topic |-> topic, members |-> Append(tps[t].members, i)]
            ELSE tps[t]]
    ELSE Append(tps, [topic |-> topic, members |-> <<i>>])

\* for i, comment in enumerate(comments): the comments from position i on
\* (positions count from 1 here, from 0 in the source)
RECURSIVE GroupComments(_, _, _, _)
GroupComments(cs, i, kws, tps) ==
    IF i > Len(cs) THEN tps
    ELSE LET assigned_topic == AssignedTopic(Lower(cs[i].text), kws) IN
         GroupComments(cs, i + 1, kws,
                       IF assigned_topic # NoTopic
                       THEN TopicsAppend(tps, assigned_topic, i)
                       ELSE tps)

\* RetainTopic with the comparison off by one
RetainTopicNonEmpty(members) == Len(members) >= MinGroup

\* if len(comment_indices) > 1
RetainTopic(members) == Len(members) > MinGroup

\* The entry appended to topic_summaries for one retained topic
TopicSummary(cs, entry) ==
    LET avg_sentiment ==
            Average([k \in 1..Len(entry.members) |->
                        cs[entry.members[k]].sentiment.polarity])
    IN  [topic |-> entry.topic,
         comment_count |-> Len(entry.members),
         avg_sentiment |-> avg_sentiment,
         sentiment_label |-> SentimentLabel(avg_sentiment.num, avg_sentiment.den),
         sample_comments |->
             [k \in 1..Len(Prefix(entry.members, SampleSize)) |->
                 cs[entry.members[k]].text]]

\* for topic, comment_indices in topics.items(): the summaries, in the order
\* of the topics
TopicSummaries(cs, tps) ==
    LET kept == SelectIdx(tps, { t \in 1..Len(tps) : RetainTopic(tps[t].members) })
    IN  [t \in 1..Len(kept) |-> TopicSummary(cs, kept[t])]

\* avg_sentiment when the result is built: line 348 assigns it the mean of
\* comment_sentiments, and line 378 assigns the same name again for every
\* retained topic, so the last retained topic's mean is what is left in it.
AvgSentimentAtReturn(sentiments, summaries) ==
    IF summaries = <<>> THEN Average(sentiments)
    ELSE summaries[Len(summaries)].avg_sentiment

\* SentimentCounts with the neutral band open at both ends
SentimentCountsOpenBand(sentiments) ==
    [positive |-> Cardinality({ k \in 1..Len(sentiments) : sentiments[k] > 1 }),
     neutral  |-> Cardinality({ k \in 1..Len(sentiments) :
                                   -1 < sentiments[k] /\ sentiments[k] < 1 }),
     negative |-> Cardinality({ k \in 1..Len(sentiments) : sentiments[k] < -1 })]

\* sentiment_counts
SentimentCounts(sentiments) ==
    [positive |-> Cardinality({ k \in 1..Len(sentiments) : sentiments[k] > 1 }),
     neutral  |-> Cardinality({ k \in 1..Len(sentiments) :
                                   -1 <= sentiments[k] /\ sentiments[k] <= 1 }),
     negative |-> Cardinality({ k \in 1..Len(sentiments) : sentiments[k] < -1 })]

\* After the loop: the summary, the topics and the returned dictionary.
PostSummarise ==
    /\ pc = "post_loop"
    /\ fetched = <<>>
    /\ LET top_keywords == most_common(keywords, TopKeywords)
           tps == GroupComments(comments, 1, Prefix(top_keywords, TopicKeywords), <<>>)
           topic_summaries == TopicSummaries(comments, tps)
           avg_sentiment == AvgSentimentAtReturn(comment_sentiments, topic_summaries)
       IN
       /\ topics' = tps
       /\ result' =
            [status |-> "success",
             comment_count |-> Len(comments),
             overall_sentiment |->
                 [average_polarity |-> avg_sentiment,
                  sentiment_label |->
                      SentimentLabel(avg_sentiment.num, avg_sentiment.den),
                  sentiment_distribution |-> SentimentCounts(comment_sentiments)],
             top_keywords |-> top_keywords,
             topic_analysis |-> topic_summaries,
             comments |-> Prefix(comments, ReturnedComments)]
    /\ pc' = "returned"
    /\ UNCHANGED <<credVars, tool, reddit, reddit_calls, args, fetched, analysed,
                   comments, comment_sentiments, keywords, trendVars>>

(***************************************************************************)
(* analyze_reddit_trends                                                   *)
(***************************************************************************)
TimePeriods == {"hour", "day", "week", "month", "year"}

TrendsChecks(time_period) ==
    IF MissingCredentials THEN "missing_credentials"
    ELSE IF time_period \notin TimePeriods THEN "invalid_time_period"
    ELSE "ok"

\* d[name] for a dict kept as a sequence of [name, value]
DictGet(d, name) == d[CHOOSE k \in 1..Len(d) : d[k].name = name].value

\* d[name] = value: an existing key keeps its place, a new one goes last
DictSet(d, name, value) ==
    IF \E k \in 1..Len(d) : d[k].name = name
    THEN [k \in 1..Len(d) |->
            IF d[k].name = name THEN [name |-> name, value |-> value] ELSE d[k]]
    ELSE Append(d, [name |-> name, value |-> value])

\* The statistics a subreddit starts with
NewStats ==
    [post_count |-> 0, total_score |-> 0, total_comments |-> 0,
     keywords |-> <<>>, sentiments |-> <<>>]

\* What the except clause of the inner try stores for the subreddit
SubredditError == [error |-> "subreddit_error"]

\* The position in subreddits of the name the outer loop is at
Position == Len(subreddits) - Len(remaining) + 1

\* Up to the outer loop: the checks, the client, the default subreddit list.
TrendsCall ==
    /\ pc = "idle"
    /\ tool' = "analyze_reddit_trends"
    /\ \E time_period \in {"day", "all"},
          requested \in SeqsUpTo(SubredditNames, MaxSubs) :
          /\ args' = [time_period |-> time_period]
          /\ LET check == TrendsChecks(time_period) IN
             IF check # "ok"
             THEN /\ pc' = "returned"
                  /\ result' = ErrorResult(check)
                  /\ UNCHANGED <<reddit, subreddits, remaining>>
             ELSE \/ /\ Raise("analyze_reddit_trends")
                     /\ UNCHANGED <<reddit, subreddits, remaining>>
                  \/ /\ reddit' = TRUE
                     /\ subreddits' = (IF requested = <<>> THEN <<"all">> ELSE requested)
                     /\ remaining' = subreddits'
                     /\ pc' = "trends_loop"
                     /\ UNCHANGED result
    /\ UNCHANGED <<credVars, reddit_calls, postVars, yielded, all_posts,
                   subreddit_stats, failed>>

\* The outer loop takes the next name: its statistics are initialised.
TrendsBeginSubreddit ==
    /\ pc = "trends_loop"
    /\ remaining # <<>>
    /\ reddit_calls' = TRUE
    /\ subreddit_stats' = DictSet(subreddit_stats, Head(remaining), NewStats)
    /\ yielded' = <<>>
    /\ pc' = "trends_posts"
    /\ UNCHANGED <<credVars, tool, reddit, result, args, postVars, subreddits,
                   remaining, all_posts, failed>>

\* The posts the listing can yield next: subreddit.top() lists each post once,
\* by non-increasing score, and at most limit of them.
NextPosts ==
    IF Len(yielded) >= MaxPosts THEN {}
    ELSE { p \in PostsOf(Head(remaining)) :
             /\ \A k \in 1..Len(yielded) : yielded[k].id # p.id
             /\ yielded # <<>> => p.score <= yielded[Len(yielded)].score }

\* post_data; fetch is the position in subreddits of the name whose listing
\* yielded the post (bookkeeping of the model, not a key of the source's dict)
PostData(post) ==
    [id |-> post.id, title |-> post.title, subreddit |-> post.subreddit,
     score |-> post.score, num_comments |-> post.num_comments, fetch |-> Position]

\* combined_text
CombinedText(post) ==
    IF post.selftext # <<>> THEN post.title \o <<" ">> \o post.selftext
    ELSE post.title

\* The statistics of the subreddit after one more post
StatsWithPost(stats, post) ==
    [post_count |-> stats.post_count + 1,
     total_score |-> stats.total_score + post.score,
     total_comments |-> stats.total_comments + post.num_comments,
     keywords |-> CounterUpdate(stats.keywords, filtered_tokens(CombinedText(post))),
     sentiments |-> Append(stats.sentiments, post.polarity)]

\* One iteration of the inner loop: the listing yields a post.
TrendsPost ==
    /\ pc = "trends_posts"
    /\ \E post \in NextPosts :
          /\ yielded' = Append(yielded, post)
          /\ all_posts' = Append(all_posts, PostData(post))
          /\ subreddit_stats' =
                DictSet(subreddit_stats, Head(remaining),
                        StatsWithPost(DictGet(subreddit_stats, Head(remaining)), post))
    /\ UNCHANGED <<credVars, pc, tool, reddit, reddit_calls, result, args, postVars,
                   subreddits, remaining, failed>>

\* StatsAfterError with the except clause around the whole loop: what the
\* subreddits before the failing one had gathered is lost with it
StatsAfterErrorAll(d, name) == <<[name |-> name, value |-> SubredditError]>>

\* The except clause of the inner try: whatever the subreddit had is replaced
\* by the error entry.
StatsAfterError(d, name) == DictSet(d, name, SubredditError)

\* The inner try raises: the listing does (before its first post or after
\* some), or the processing of a post does once the post is in all_posts.
TrendsFail ==
    /\ pc = "trends_posts"
    /\ \/ UNCHANGED all_posts
       \/ \E post \in NextPosts : all_posts' = Append(all_posts, PostData(post))
    /\ subreddit_stats' = StatsAfterError(subreddit_stats, Head(remaining))
    /\ failed' = failed \cup {Position}
    /\ remaining' = Tail(remaining)
    /\ yielded' = <<>>
    /\ pc' = "trends_loop"
    /\ UNCHANGED <<credVars, tool, reddit, reddit_calls, result, args, postVars,
                   subreddits>>

\* The listing is exhausted: the subreddit's average and top keywords.
TrendsEndSubreddit ==
    /\ pc = "trends_posts"
    /\ LET stats == DictGet(subreddit_stats, Head(remaining)) IN
       subreddit_stats' =
          DictSet(subreddit_stats, Head(remaining),
                  stats @@ [avg_sentiment |-> Average(stats.sentiments),
                            top_keywords |-> most_common(stats.keywords, TopicKeywords)])
    /\ remaining' = Tail(remaining)
    /\ yielded' = <<>>
    /\ pc' = "trends_loop"
    /\ UNCHANGED <<credVars, tool, reddit, reddit_calls, result, args, postVars,
                   subreddits, all_posts, failed>>

\* all_keywords and all_sentiments: the entries that have the key contribute
RECURSIVE AllKeywords(_)
AllKeywords(d) ==
    IF d = <<>> THEN <<>>
    ELSE LET stats == d[Len(d)].value
             before == AllKeywords(SubSeq(d, 1, Len(d) - 1))
         IN  IF "keywords" \in DOMAIN stats
             THEN CounterMerge(before, stats.keywords) ELSE before

RECURSIVE AllSentiments(_)
AllSentiments(d) ==
    IF d = <<>> THEN <<>>
    ELSE LET stats == d[Len(d)].value
             before == AllSentiments(SubSeq(d, 1, Len(d) - 1))
         IN  IF "sentiments" \in DOMAIN stats
             THEN before \o stats.sentiments ELSE before

\* The entry of subreddit_activity for one subreddit; activity_score
\* (total_score / 100) + total_comments is the fraction num/den
ActivityEntry(name, stats) ==
    [subreddit |-> name,
     activity_score |-> [num |-> stats.total_score + ScoreDivisor * stats.total_comments,
                         den |-> ScoreDivisor],
     post_count |-> stats.post_count,
     total_score |-> stats.total_score,
     total_comments |-> stats.total_comments,
     avg_sentiment |-> IF "avg_sentiment" \in DOMAIN stats
                       THEN stats.avg_sentiment ELSE [num |-> 0, den |-> 1]]

\* SubredditActivity without the sort: the entries in the order of the dict
SubredditActivityUnsorted(d) ==
    LET kept == SelectIdx(d, { k \in 1..Len(d) : "total_score" \in DOMAIN d[k].value })
    IN  [k \in 1..Len(kept) |-> ActivityEntry(kept[k].name, kept[k].value)]

\* subreddit_activity, sorted by activity_score, descending
SubredditActivity(d) ==
    LET kept == SelectIdx(d, { k \in 1..Len(d) : "total_score" \in DOMAIN d[k].value })
        entries == [k \in 1..Len(kept) |-> ActivityEntry(kept[k].name, kept[k].value)]
    IN  SortDesc(entries, [k \in 1..Len(entries) |-> entries[k].activity_score.num])

\* `for keyword, _ in trending_keywords[:10]`: each element is the dict
\* {"word": ..., "count": ...}; unpacking a dict iterates its keys, so keyword
\* is bound to the key "word" and _ to the key "count", whatever the entry kw.
UnpackedKeyword(kw) == <<"w","o","r","d">>

\* for post in all_posts: if keyword in post["title"].lower(): append its id
RECURSIVE GroupPosts(_, _, _, _)
GroupPosts(keyword, posts, j, tps) ==
    IF j > Len(posts) THEN tps
    ELSE GroupPosts(keyword, posts, j + 1,
                    IF IsSubstring(keyword, Lower(posts[j].title))
                    THEN TopicsAppend(tps, keyword, posts[j].id)
                    ELSE tps)

\* for keyword, _ in trending_keywords[:10]: ...
RECURSIVE GroupByKeywords(_, _, _, _)
GroupByKeywords(kws, k, posts, tps) ==
    IF k > Len(kws) THEN tps
    ELSE GroupByKeywords(kws, k + 1, posts,
                         GroupPosts(UnpackedKeyword(kws[k]), posts, 1, tps))

\* The entry appended to topic_summaries for one retained topic of posts
TrendTopicSummary(posts, entry) ==
    LET ids == { entry.members[k] : k \in 1..Len(entry.members) }
        relevant_posts == SelectIdx(posts, { j \in 1..Len(posts) : posts[j].id \in ids })
    IN  [topic |-> entry.topic,
         post_count |-> Len(entry.members),
         avg_score |-> [num |-> Sum([j \in 1..Len(relevant_posts) |->
                                        relevant_posts[j].score]),
                        den |-> Len(relevant_posts)],
         sample_posts |-> [j \in 1..Len(Prefix(relevant_posts, SampleSize)) |->
                              relevant_posts[j].title]]

TrendTopicSummaries(posts, tps) ==
    LET kept == SelectIdx(tps, { t \in 1..Len(tps) : RetainTopic(tps[t].members) })
    IN  [t \in 1..Len(kept) |-> TrendTopicSummary(posts, kept[t])]

\* sorted(all_posts, key=lambda x: x["score"], reverse=True)[:10]
TrendingPostsOf(posts) ==
    Prefix(SortDesc(posts, [j \in 1..Len(posts) |-> posts[j].score]), TrendingPosts)

\* After the outer loop: the aggregates and the returned dictionary.
TrendsSummarise ==
    /\ pc = "trends_loop"
    /\ remaining = <<>>
    /\ LET all_keywords == AllKeywords(subreddit_stats)
           all_sentiments == AllSentiments(subreddit_stats)
           trending_keywords == most_common(all_keywords, TopKeywords)
           avg_sentiment == Average(all_sentiments)
           tps == GroupByKeywords(Prefix(trending_keywords, TopicKeywords), 1,
                                  all_posts, <<>>)
       IN
       /\ topics' = tps
       /\ result' =
            [status |-> "success",
             analysis_period |-> args.time_period,
             subreddits_analyzed |-> subreddits,
             trending_keywords |-> trending_keywords,
             overall_sentiment |->
                 [average_polarity |-> avg_sentiment,
                  sentiment_label |->
                      SentimentLabel(avg_sentiment.num, avg_sentiment.den)],
             subreddit_activity |-> SubredditActivity(subreddit_stats),
             topic_analysis |-> TrendTopicSummaries(all_posts, tps),
             trending_posts |-> TrendingPostsOf(all_posts)]
    /\ pc' = "returned"
    /\ UNCHANGED <<credVars, tool, reddit, reddit_calls, args, fetched, analysed,
                   comments, comment_sentiments, keywords, trendVars>>

(***************************************************************************)
(* The tool returns to its caller; its locals are gone.                    *)
(***************************************************************************)
Return ==
    /\ pc = "returned"
    /\ pc' = "idle"
    /\ tool' = None
    /\ reddit' = FALSE
    /\ reddit_calls' = FALSE
    /\ result' = NoResult
    /\ args' = NoArgs
    /\ fetched' = <<>>
    /\ analysed' = <<>>
    /\ comments' = <<>>
    /\ comment_sentiments' = <<>>
    /\ keywords' = <<>>
    /\ topics' = <<>>
    /\ subreddits' = <<>>
    /\ remaining' = <<>>
    /\ yielded' = <<>>
    /\ all_posts' = <<>>
    /\ subreddit_stats' = <<>>
    /\ failed' = {}
    /\ UNCHANGED credVars

Next ==
    \/ FetchWebpage
    \/ SearchCall
    \/ SearchFetch
    \/ PostCall
    \/ PostComment
    \/ PostSummarise
    \/ TrendsCall
    \/ TrendsBeginSubreddit
    \/ TrendsPost
    \/ TrendsFail
    \/ TrendsEndSubreddit
    \/ TrendsSummarise
    \/ Return

Spec == Init /\ [][Next]_vars

(***************************************************************************)
(* Start-up: run.py imports app.main, whose first import is app.tools,     *)
(* whose line 23 imports app.config and binds three names of its own to    *)
(* the values config's globals hold at that moment; start() then calls     *)
(* init_environment(), which assigns config's globals, and register_tools. *)
(***************************************************************************)
\* A name that no statement has bound yet
Unbound == "unbound"

\* What the environment can provide for each variable: nothing (None), the
\* empty string, or a value
Environs ==
    [REDDIT_CLIENT_ID : {None, "", "id"}, REDDIT_CLIENT_SECRET : {None, "", "secret"}]

\* os.getenv(name, default)
getenv(value, default) == IF value = None THEN default ELSE value

\* The interpreter is about to execute run.py
StartInit ==
    /\ environ \in Environs
    /\ REDDIT_CLIENT_ID = Unbound
    /\ REDDIT_CLIENT_SECRET = Unbound
    /\ config_REDDIT_CLIENT_ID = Unbound
    /\ config_REDDIT_CLIENT_SECRET = Unbound
    /\ pc = "run"
    /\ NoInvocation

invocationVars == <<tool, reddit, reddit_calls, result, args, postVars, trendVars>>

\* The body of app/config.py, executed for the import at tools.py:23: its
\* globals are assigned None
ImportConfig ==
    /\ pc = "run"
    /\ config_REDDIT_CLIENT_ID' = None
    /\ config_REDDIT_CLIENT_SECRET' = None
    /\ pc' = "config_imported"
    /\ UNCHANGED <<REDDIT_CLIENT_ID, REDDIT_CLIENT_SECRET, environ, invocationVars>>

\* from .config import REDDIT_CLIENT_ID, REDDIT_CLIENT_SECRET, ...: the names
\* of app/tools.py are bound to the values config's globals hold now
ImportTools ==
    /\ pc = "config_imported"
    /\ REDDIT_CLIENT_ID' = config_REDDIT_CLIENT_ID
    /\ REDDIT_CLIENT_SECRET' = config_REDDIT_CLIENT_SECRET
    /\ pc' = "tools_imported"
    /\ UNCHANGED <<config_REDDIT_CLIENT_ID, config_REDDIT_CLIENT_SECRET, environ,
                   invocationVars>>

\* init_environment(): `global` makes the assignments rebind the names of
\* app/config.py, and no other module's
InitEnvironment ==
    /\ pc = "tools_imported"
    /\ config_REDDIT_CLIENT_ID' = getenv(environ.REDDIT_CLIENT_ID, "")
    /\ config_REDDIT_CLIENT_SECRET' = getenv(environ.REDDIT_CLIENT_SECRET, "")
    /\ pc' = "environment_ready"
    /\ UNCHANGED <<REDDIT_CLIENT_ID, REDDIT_CLIENT_SECRET, environ, invocationVars>>

\* register_tools(mcp) and mcp.run(): the tools can be called
RegisterTools ==
    /\ pc = "environment_ready"
    /\ pc' = "idle"
    /\ UNCHANGED <<credVars, invocationVars>>

\* The steps of the started program.  Every tool step that is not listed is
\* guarded by a position (search_fetch, post_loop, trends_loop,
\* trends_posts) that is entered only past the credential check, which the
\* bindings left by ImportTools never pass (StartedToolsStopAtTheCheck).
StartNext ==
    \/ ImportConfig
    \/ ImportTools
    \/ InitEnvironment
    \/ RegisterTools
    \/ FetchWebpage
    \/ SearchCall
    \/ PostCall
    \/ TrendsCall
    \/ Return

StartSpec == StartInit /\ [][StartNext]_vars

(***************************************************************************)
(* Properties.                                                             *)
(***************************************************************************)
\* Two fractions are the same number (denominators are positive)
SameNumber(a, b) == a.num * b.den = b.num * a.den

PostDone ==
    pc = "returned" /\ tool = "analyze_reddit_post" /\ result.status = "success"

TrendsDone ==
    pc = "returned" /\ tool = "analyze_reddit_trends" /\ result.status = "success"

\* C1: when analyze_reddit_post returns its analysis, the reported
\* overall_sentiment.average_polarity is the arithmetic mean of the polarities
\* of all the analysed comments (0 when there is none), whatever topic groups
\* were retained.
C1_AveragePolarityIsMeanOfAll ==
    PostDone =>
        SameNumber(result.overall_sentiment.average_polarity,
                   Average([k \in 1..Len(analysed) |-> analysed[k].polarity]))

\* The posts that the listing of a subreddit whose fetch raised had yielded
FailedPosts == { k \in 1..Len(all_posts) : all_posts[k].fetch \in failed }

\* The ids that the retained topics of the trend analysis group
RetainedPostIds ==
    UNION { { topics[t].members[m] : m \in 1..Len(topics[t].members) } :
            t \in { u \in 1..Len(topics) : RetainTopic(topics[u].members) } }

\* C2: when analyze_reddit_trends returns, a subreddit whose fetch raised has
\* no part in the aggregates: its entry holds no keywords, sentiments or
\* totals (unless the same name was fetched again later), and none of the
\* posts it had yielded is in trending_posts or in a group of topic_analysis.
C2_FailedSubredditExcluded ==
    TrendsDone =>
        /\ \A i \in failed :
              (\A j \in (i + 1)..Len(subreddits) : subreddits[j] # subreddits[i])
              => /\ DOMAIN DictGet(subreddit_stats, subreddits[i]) = {"error"}
                 /\ \A k \in 1..Len(result.subreddit_activity) :
                       result.subreddit_activity[k].subreddit # subreddits[i]
        /\ \A k \in FailedPosts :
              /\ \A j \in 1..Len(result.trending_posts) :
                    result.trending_posts[j] # all_posts[k]
              /\ all_posts[k].id \notin RetainedPostIds

\* The subreddits for which the returned dictionary carries an error marker:
\* an entry of one of its lists that names the subreddit and has an "error"
\* key, or an "errors" key of the dictionary itself.
ErrorMarked(r) ==
    { r.subreddit_activity[k].subreddit :
        k \in { j \in 1..Len(r.subreddit_activity) :
                  "error" \in DOMAIN r.subreddit_activity[j] } }
    \cup (IF "errors" \in DOMAIN r THEN r.errors ELSE {})

\* C3: when analyze_reddit_trends was given several subreddits and the fetch
\* of one of them (a name requested once) raised, the returned result has
\* status success and carries an error marker for the failing subreddit.
C3_FailingSubredditMarked ==
    (pc = "returned" /\ tool = "analyze_reddit_trends"
       /\ Len(subreddits) > 1 /\ Cardinality(failed) = 1
       /\ \A i \in failed :
             \A j \in 1..Len(subreddits) : j # i => subreddits[j] # subreddits[i])
    => /\ result.status = "success"
       /\ \A i \in failed : subreddits[i] \in ErrorMarked(result)

\* An enum argument of the running invocation is outside its allowed set
BadEnumArgument ==
    \/ /\ tool = "search_reddit"
       /\ \/ args.search_type \notin {"post", "subreddit"}
          \/ args.time_filter \notin {"hour", "day", "week", "month", "year", "all"}
    \/ /\ tool = "analyze_reddit_post"
       /\ args.comment_sort \notin {"top", "best", "new", "controversial", "old", "qa"}
    \/ /\ tool = "analyze_reddit_trends"
       /\ args.time_period \notin {"hour", "day", "week", "month", "year"}

RedditTools == {"search_reddit", "analyze_reddit_post", "analyze_reddit_trends"}

\* C4: in an invocation of search_reddit, analyze_reddit_post or
\* analyze_reddit_trends with a credential missing or an enum argument outside
\* its allowed set, the Reddit client is never constructed nor called, and what
\* is returned is a result with status "error".
C4_InvalidCallNeverReachesReddit ==
    (tool \in RedditTools /\ (MissingCredentials \/ BadEnumArgument))
    => /\ ~reddit
       /\ ~reddit_calls
       /\ pc = "returned"
       /\ result.status = "error"

\* C4, reached: the credentials are configured, the time filter of a subreddit
\* search is not an allowed one, and the call has returned.
C4_Witness ==
    /\ pc = "returned"
    /\ tool = "search_reddit"
    /\ ~MissingCredentials
    /\ args.search_type = "subreddit"
    /\ args.time_filter = "decade"
    /\ result.status = "error"

\* What a tool hands back is a dictionary with a status of success or error,
\* and with a message when the status is error
WellFormedResult(r) ==
    /\ "status" \in DOMAIN r
    /\ r.status \in {"success", "error"}
    /\ r.status = "error" => ("message" \in DOMAIN r /\ r.message # "")

\* An upper bound on the steps a running invocation has left before it returns
StepsLeft ==
    CASE pc = "search_fetch" -> 1
      [] pc = "post_loop" -> Len(fetched) + 1
      [] pc = "trends_loop" -> Len(remaining) * (MaxPosts + 2) + 1
      [] pc = "trends_posts" ->
            (Len(remaining) - 1) * (MaxPosts + 2) + (MaxPosts - Len(yielded)) + 2
      [] OTHER -> 0

\* C5: every invocation of every tool ends by returning a dictionary whose
\* status is "success" or "error", an error carrying a message: every step of
\* a running invocation either returns or leaves fewer steps to take, and
\* whatever the client, the fetch or the text processing raised on the way,
\* what is returned is such a dictionary.
C5_EveryToolReturnsAStatus ==
    /\ [](pc = "returned" => WellFormedResult(result))
    /\ [][pc \notin {"idle", "returned"}
            => (pc' = "returned" \/ (StepsLeft' < StepsLeft /\ StepsLeft' > 0))]_vars

\* C5, reached: an exception raised while a comment was being analysed came
\* back as the error result of analyze_reddit_post.
C5_Witness ==
    /\ pc = "returned"
    /\ tool = "analyze_reddit_post"
    /\ analysed # <<>>
    /\ result.status = "error"
    /\ result.message = "post_analysis_error"

\* The words of the first TopicKeywords trending keywords
TopTrendingWords ==
    { result.trending_keywords[k].word :
        k \in 1..Len(Prefix(result.trending_keywords, TopicKeywords)) }

\* The members of the topic named w in topics
MembersOf(w) ==
    IF \E t \in 1..Len(topics) : topics[t].topic = w
    THEN topics[CHOOSE t \in 1..Len(topics) : topics[t].topic = w].members
    ELSE <<>>

Range(s) == { s[k] : k \in 1..Len(s) }

\* C6: when analyze_reddit_trends returns, every entry of topic_analysis is
\* labelled with one of the first ten trending keywords, groups exactly the
\* posts whose lower-cased title contains that keyword, groups at least two
\* distinct posts, and reports their number as post_count.
C6_TrendTopicsAreKeywordGroups ==
    TrendsDone =>
        \A e \in 1..Len(result.topic_analysis) :
            LET entry == result.topic_analysis[e]
                ids == Range(MembersOf(entry.topic))
            IN  /\ entry.topic \in TopTrendingWords
                /\ ids = { all_posts[j].id :
                             j \in { i \in 1..Len(all_posts) :
                                       IsSubstring(entry.topic, Lower(all_posts[i].title)) } }
                /\ Cardinality(ids) >= 2
                /\ entry.post_count = Cardinality(ids)

\* The topic the grouping gave the i-th analysed comment, NoTopic if none
TopicOfComment(i) ==
    IF \E t \in 1..Len(topics) : i \in Range(topics[t].members)
    THEN topics[CHOOSE t \in 1..Len(topics) : i \in Range(topics[t].members)].topic
    ELSE NoTopic

\* C7: when analyze_reddit_post returns its analysis, each analysed comment is
\* in the group of the first of the ten top keywords, in rank order, that
\* occurs in the lower-cased text the keywords were extracted from, and in no
\* group exactly when none of them occurs in it.
C7_CommentGoesToFirstKeywordOfItsText ==
    PostDone =>
        \A i \in 1..Len(analysed) :
            TopicOfComment(i) =
                AssignedTopic(Lower(analysed[i].body),
                              Prefix(result.top_keywords, TopicKeywords))

\* C8: when analyze_reddit_post returns its analysis, no entry of
\* topic_analysis has fewer than 2 member comments, no comment is a member of
\* two groups (nor twice of one), comment_count is the number of members of
\* the entry's group, and with no comment assigned to a keyword the analysis
\* is returned all the same, its topic_analysis the empty list.
C8_TopicGroupsAreDisjointAndNotSmall ==
    PostDone =>
       /\ \A e \in 1..Len(result.topic_analysis) :
             LET entry == result.topic_analysis[e] IN
             /\ entry.comment_count >= 2
             /\ entry.comment_count = Cardinality(Range(MembersOf(entry.topic)))
             /\ \A f \in 1..Len(result.topic_analysis) :
                   f # e => result.topic_analysis[f].topic # entry.topic
       /\ \A t, u \in 1..Len(topics) :
             /\ t # u => Range(topics[t].members) \cap Range(topics[u].members) = {}
             /\ Cardinality(Range(topics[t].members)) = Len(topics[t].members)
             /\ Range(topics[t].members) \subseteq 1..Len(comments)
       /\ topics = <<>> => result.topic_analysis = <<>>

\* C8, reached: an analysis that kept one group of two comments or more and
\* dropped another that had a single member.
C8_Witness ==
    /\ PostDone
    /\ result.topic_analysis # <<>>
    /\ \E t \in 1..Len(topics) : Len(topics[t].members) = 1

\* The label the thresholds give to the polarity num/den (in tenths)
LabelOf(num, den) ==
    CASE num > den -> "positive"
      [] num < -den -> "negative"
      [] OTHER -> "neutral"

\* C9: every sentiment label in a returned result is the function of the
\* polarity reported beside it: positive above 0.1, negative below -0.1,
\* neutral otherwise, so neutral at exactly 0.1 and -0.1.  This holds of each
\* comment, each topic group and the overall sentiment of analyze_reddit_post,
\* and of the overall sentiment of analyze_reddit_trends.
C9_LabelIsFunctionOfPolarity ==
    /\ PostDone =>
          /\ \A k \in 1..Len(result.comments) :
                result.comments[k].sentiment.label =
                    LabelOf(result.comments[k].sentiment.polarity, 1)
          /\ \A e \in 1..Len(result.topic_analysis) :
                result.topic_analysis[e].sentiment_label =
                    LabelOf(result.topic_analysis[e].avg_sentiment.num,
                            result.topic_analysis[e].avg_sentiment.den)
          /\ result.overall_sentiment.sentiment_label =
                LabelOf(result.overall_sentiment.average_polarity.num,
                        result.overall_sentiment.average_polarity.den)
    /\ TrendsDone =>
          result.overall_sentiment.sentiment_label =
              LabelOf(result.overall_sentiment.average_polarity.num,
                      result.overall_sentiment.average_polarity.den)

\* C9, reached: an analysis that returned a comment of polarity exactly 0.1
\* and one of polarity exactly -0.1, both labelled neutral.
C9_Witness ==
    /\ PostDone
    /\ \E k \in 1..Len(result.comments) :
          /\ result.comments[k].sentiment.polarity = 1
          /\ result.comments[k].sentiment.label = "neutral"
    /\ \E k \in 1..Len(result.comments) :
          /\ result.comments[k].sentiment.polarity = -1
          /\ result.comments[k].sentiment.label = "neutral"

\* Every character of the word is a punctuation character
PurePunctuation(word) ==
    \A k \in 1..Len(word) : word[k] \in Range(string_punctuation)

\* The word is one the normalizer is to drop
Dropped(word) ==
    \/ word \in stop_words
    \/ PurePunctuation(word)
    \/ Len(word) <= 2

\* The keyword tables of the running invocation
KeywordTables ==
    {keywords}
    \cup { subreddit_stats[k].value.keywords :
             k \in { j \in 1..Len(subreddit_stats) :
                       "keywords" \in DOMAIN subreddit_stats[j].value } }

\* C10: every word in a keyword table of analyze_reddit_post or
\* analyze_reddit_trends is, as it stands there (lower-cased and lemmatized),
\* no stop word, not pure punctuation and longer than 2 characters.
C10_KeywordsPassTheFilters ==
    \A table \in KeywordTables :
        \A k \in 1..Len(table) : ~Dropped(table[k].word)

\* The sequences of a sequence of sequences, one after the other
RECURSIVE Flatten(_)
Flatten(ss) == IF ss = <<>> THEN <<>> ELSE Head(ss) \o Flatten(Tail(ss))

\* How often the word w occurs in the token sequence T
Occurrences(T, w) == Cardinality({ k \in 1..Len(T) : T[k] = w })

\* Where the word w, which occurs in T, occurs first
FirstSeen(T, w) ==
    CHOOSE k \in 1..Len(T) : T[k] = w /\ \A j \in 1..(k - 1) : T[j] # w

\* v ranks ahead of w: it occurs more often, or as often and first appeared
\* earlier
Ahead(T, v, w) ==
    \/ Occurrences(T, v) > Occurrences(T, w)
    \/ /\ Occurrences(T, v) = Occurrences(T, w)
       /\ FirstSeen(T, v) < FirstSeen(T, w)

\* L is the top-n list of the token sequence T: at most n entries, each a word
\* of T with its number of occurrences, each entry ahead of the entries after
\* it, and a word of T is left out only when the list is full and its last
\* entry is ahead of that word
IsTopN(L, T, n) ==
    /\ Len(L) <= n
    /\ \A i \in 1..Len(L) :
          /\ L[i].word \in Range(T)
          /\ L[i].count = Occurrences(T, L[i].word)
    /\ \A i, j \in 1..Len(L) :
          i < j => /\ L[i].count >= L[j].count
                   /\ Ahead(T, L[i].word, L[j].word)
    /\ \A w \in Range(T) \ { L[i].word : i \in 1..Len(L) } :
          Len(L) = n /\ Ahead(T, L[n].word, w)

\* The truncation to n entries cut inside a group of ties: a word of T left
\* out of L occurs as often as the last entry of L
CutInsideTies(L, T, n) ==
    /\ Len(L) = n
    /\ \E w \in Range(T) \ { L[i].word : i \in 1..Len(L) } :
          Occurrences(T, w) = L[n].count

\* The tokens of each comment and of each post that Reddit holds
TokensOfComment == [c \in CommentFixtures |-> filtered_tokens(c.body)]

TokensOfPost == [p \in PostFixtures |-> filtered_tokens(CombinedText(p))]

\* The tokens folded by analyze_reddit_post: those of the analysed comments,
\* in the order the comments were processed
PostStream == Flatten([k \in 1..Len(analysed) |-> TokensOfComment[analysed[k]]])

\* The post Reddit holds under an id
PostOfId(id) == CHOOSE p \in PostFixtures : p.id = id

\* The tokens folded for the i-th requested subreddit: those of the posts its
\* listing yielded, in the order they were processed
FetchStream(i) ==
    LET mine == SelectIdx(all_posts, { k \in 1..Len(all_posts) : all_posts[k].fetch = i })
    IN  Flatten([k \in 1..Len(mine) |-> TokensOfPost[PostOfId(mine[k].id)]])

\* The position in the request of the last fetch of a name that has ended
LastFetch(name) ==
    LET ended == { i \in 1..(Len(subreddits) - Len(remaining)) : subreddits[i] = name }
    IN  CHOOSE i \in ended : \A j \in ended : j <= i

\* The requested names in request order, each at its first mention, without
\* those whose fetch raised
SucceededNames ==
    SelectIdx(subreddits,
              { i \in 1..Len(subreddits) :
                  /\ \A j \in 1..(i - 1) : subreddits[j] # subreddits[i]
                  /\ LastFetch(subreddits[i]) \notin failed })

\* The tokens folded into the merged table: those of the succeeding
\* subreddits, subreddit after subreddit in request order
TrendStream ==
    Flatten([k \in 1..Len(SucceededNames) |-> FetchStream(LastFetch(SucceededNames[k]))])

\* The entries of subreddit_stats that hold a top_keywords list
WithTopKeywords ==
    { k \in 1..Len(subreddit_stats) : "top_keywords" \in DOMAIN subreddit_stats[k].value }

\* C11: each top-N keyword list (top_keywords of analyze_reddit_post, N = 20;
\* the per-subreddit top_keywords, N = 10, and the merged trending_keywords,
\* N = 20, of analyze_reddit_trends) has at most N entries, is sorted by
\* non-increasing count, and among words of equal count keeps the one that
\* first appeared earlier in the folded input ahead of the later one, also
\* where the truncation cuts inside a group of ties.
C11_TopListsAreStableTopN ==
    /\ PostDone => IsTopN(result.top_keywords, PostStream, TopKeywords)
    /\ tool = "analyze_reddit_trends" =>
          \A k \in WithTopKeywords :
              IsTopN(subreddit_stats[k].value.top_keywords,
                     FetchStream(LastFetch(subreddit_stats[k].name)),
                     TopicKeywords)
    /\ TrendsDone => IsTopN(result.trending_keywords, TrendStream, TopKeywords)

\* C11, reached: a trend analysis of two subreddits whose merged list of 20 and
\* one of whose per-subreddit lists of 10 were cut inside a group of ties, the
\* per-subreddit list led by a word that first appeared after others but
\* occurs more often.
C11_Witness ==
    /\ TrendsDone
    /\ Len(subreddits) = 2
    /\ CutInsideTies(result.trending_keywords, TrendStream, TopKeywords)
    /\ \E k \in WithTopKeywords :
          LET L == subreddit_stats[k].value.top_keywords
              T == FetchStream(LastFetch(subreddit_stats[k].name))
          IN  /\ CutInsideTies(L, T, TopicKeywords)
              /\ FirstSeen(T, L[1].word) > FirstSeen(T, L[2].word)

\* The posts, as Reddit holds them, that the listing of the i-th requested
\* subreddit yielded, in the order they were processed
FetchPosts(i) ==
    LET mine == SelectIdx(all_posts, { k \in 1..Len(all_posts) : all_posts[k].fetch = i })
    IN  [k \in 1..Len(mine) |-> PostOfId(mine[k].id)]

\* The statistics of a subreddit computed from the posts its own listing
\* yielded and from nothing else
OwnStats(name) ==
    LET posts == FetchPosts(LastFetch(name)) IN
    [post_count |-> Len(posts),
     total_score |-> Sum([k \in 1..Len(posts) |-> posts[k].score]),
     total_comments |-> Sum([k \in 1..Len(posts) |-> posts[k].num_comments]),
     avg_sentiment |-> Average([k \in 1..Len(posts) |-> posts[k].polarity])]

\* The polarities of the posts of the succeeding subreddits
SucceededPolarities ==
    Flatten([n \in 1..Len(SucceededNames) |->
                LET posts == FetchPosts(LastFetch(SucceededNames[n]))
                IN  [k \in 1..Len(posts) |-> posts[k].polarity]])

\* The fetch of exactly one requested subreddit raised, and that subreddit was
\* requested once
OneSubredditFailed ==
    /\ TrendsDone
    /\ Cardinality(failed) = 1
    /\ \A i \in failed :
          \A j \in 1..Len(subreddits) : j # i => subreddits[j] # subreddits[i]

\* C12: when analyze_reddit_trends returns after the fetch of one requested
\* subreddit raised and the others succeeded, every succeeding subreddit has in
\* subreddit_activity the post_count, total_score, total_comments and
\* avg_sentiment that its own posts give, as if the failing subreddit had not
\* been requested, and overall_sentiment.average_polarity is the mean of the
\* polarities of the posts of the succeeding subreddits only (0 without any).
C12_FailureLeavesOthersUntouched ==
    OneSubredditFailed =>
        /\ \A n \in 1..Len(SucceededNames) :
              LET own == OwnStats(SucceededNames[n])
                  mine == { k \in 1..Len(result.subreddit_activity) :
                              result.subreddit_activity[k].subreddit = SucceededNames[n] }
              IN  /\ mine # {}
                  /\ \A k \in mine :
                        LET entry == result.subreddit_activity[k] IN
                        /\ entry.post_count = own.post_count
                        /\ entry.total_score = own.total_score
                        /\ entry.total_comments = own.total_comments
                        /\ SameNumber(entry.avg_sentiment, own.avg_sentiment)
        /\ SameNumber(result.overall_sentiment.average_polarity,
                      Average(SucceededPolarities))

\* C12, reached: of two subreddits the first gathered two posts and the second
\* raised after its listing had yielded a post.
C12_Witness ==
    /\ OneSubredditFailed
    /\ Len(subreddits) = 2
    /\ failed = {2}
    /\ Len(FetchPosts(1)) = 2
    /\ Len(FetchPosts(2)) = 1
    /\ result.overall_sentiment.average_polarity.num # 0

\* The analysed comments whose per-comment label is the given one
LabelledAs(label) ==
    { k \in 1..Len(comments) : comments[k].sentiment.label = label }

\* C13: when analyze_reddit_post returns its analysis, each count of
\* sentiment_distribution is the number of analysed comments whose own label is
\* that label, so the three counts add up to comment_count, the number of
\* analysed comments, for every input, the one without comments included.
C13_DistributionPartitionsComments ==
    PostDone =>
        LET counts == result.overall_sentiment.sentiment_distribution IN
        /\ DOMAIN counts = {"positive", "neutral", "negative"}
        /\ \A label \in DOMAIN counts :
              counts[label] = Cardinality(LabelledAs(label))
        /\ result.comment_count = Len(analysed)
        /\ Len(comments) = Len(analysed)
        /\ counts.positive + counts.neutral + counts.negative = result.comment_count

\* C13, reached: an analysis of three comments, one at the threshold 0.1 and
\* one at -0.1 exactly, both counted as neutral, and one counted as positive.
C13_Witness ==
    /\ PostDone
    /\ result.comment_count = 3
    /\ result.overall_sentiment.sentiment_distribution.neutral = 2
    /\ result.overall_sentiment.sentiment_distribution.positive = 1
    /\ \E j, k \in 1..Len(comments) :
          /\ comments[j].sentiment.polarity = 1
          /\ comments[k].sentiment.polarity = -1

\* The fraction a is at least the fraction b (denominators are positive)
AtLeast(a, b) == a.num * b.den >= b.num * a.den

\* (total_score / 100) + total_comments of a subreddit, from the scores and
\* the comment counts of the posts its own listing yielded
OwnActivityScore(name) ==
    LET own == OwnStats(name)
    IN  [num |-> own.total_score + 100 * own.total_comments, den |-> 100]

\* C14: when analyze_reddit_trends returns its analysis, subreddit_activity
\* has exactly one entry for each subreddit whose fetch succeeded and none for
\* any other, each entry's activity_score is (total_score / 100) +
\* total_comments of the summed scores and summed comment counts of that
\* subreddit's posts, and the entries are in non-increasing order of
\* activity_score.
C14_ActivityIsRankedPerSubreddit ==
    TrendsDone =>
        LET activity == result.subreddit_activity IN
        /\ \A n \in 1..Len(SucceededNames) :
              Cardinality({ k \in 1..Len(activity) :
                              activity[k].subreddit = SucceededNames[n] }) = 1
        /\ \A k \in 1..Len(activity) :
              /\ activity[k].subreddit \in Range(SucceededNames)
              /\ activity[k].total_score = OwnStats(activity[k].subreddit).total_score
              /\ activity[k].total_comments =
                    OwnStats(activity[k].subreddit).total_comments
              /\ SameNumber(activity[k].activity_score,
                            OwnActivityScore(activity[k].subreddit))
        /\ \A j, k \in 1..Len(activity) :
              j < k => AtLeast(activity[j].activity_score, activity[k].activity_score)

\* C14, reached: two subreddits succeeded and the one requested second, the
\* more active of the two, is ranked first.
C14_Witness ==
    /\ TrendsDone
    /\ failed = {}
    /\ Len(result.subreddit_activity) = 2
    /\ result.subreddit_activity[1].subreddit = subreddits[2]
    /\ ~AtLeast(result.subreddit_activity[2].activity_score,
                result.subreddit_activity[1].activity_score)
    /\ result.subreddit_activity[2].total_comments > 0

\* The environment provides a non-empty client id and a non-empty secret
EnvironmentConfigured ==
    /\ environ.REDDIT_CLIENT_ID \notin {None, ""}
    /\ environ.REDDIT_CLIENT_SECRET \notin {None, ""}

\* Once started, a Reddit tool never gets past its credential check
StartedToolsStopAtTheCheck ==
    /\ pc \in {"run", "config_imported", "tools_imported", "environment_ready",
               "idle", "returned"}
    /\ (pc = "returned" /\ tool \in RedditTools) =>
          result = ErrorResult("missing_credentials")

\* C15: after start-up in the order of run.py (app.tools imported, then
\* init_environment(), then register_tools()), with an environment that
\* provides a non-empty REDDIT_CLIENT_ID and REDDIT_CLIENT_SECRET, a call of
\* search_reddit, analyze_reddit_post or analyze_reddit_trends with valid
\* parameters sees the configured values, does not return the
\* missing-credentials error, and reaches the construction of the client.
C15_ConfiguredCredentialsReachTheTools ==
    (EnvironmentConfigured /\ pc = "returned" /\ tool \in RedditTools
       /\ ~BadEnumArgument)
    => /\ REDDIT_CLIENT_ID = environ.REDDIT_CLIENT_ID
       /\ REDDIT_CLIENT_SECRET = environ.REDDIT_CLIENT_SECRET
       /\ result # ErrorResult("missing_credentials")
       /\ (reddit \/ result = ToolExcept(tool))

=============================================================================
